---- MODULE Spec2Model ----
(***************************************************************************)
(* Irksome time steppers: TimeStepper, AdaptiveTimeStepper                 *)
(* (src/irksome/stepper.py) and DiscontinuousGalerkinTimeStepper           *)
(* (src/irksome/discontinuous_galerkin_stepper.py).                        *)
(*                                                                         *)
(* Floating point numbers are modelled by exact rationals <<n, d>>, d > 0, *)
(* in lowest terms.  Sequences given by the tableau provider are 1-based   *)
(* tuples; the source's 0-based index j is written j + 1.  Every function  *)
(* of the finite element space is represented by one scalar degree of      *)
(* freedom per field.                                                      *)
(***************************************************************************)
EXTENDS Integers, Sequences, FiniteSets, TLC

(* ------------------------------ bounds --------------------------------- *)
MaxStages == 2
MaxFields == 2
MaxCalls == 2
MaxRejects == 2
RootGrid == 100
RootMax == 1000

(* --------------------------- rational numbers -------------------------- *)
Abs(x) == IF x < 0 THEN -x ELSE x

\* The arithmetic is written as functions, whose arguments are evaluated
\* once, with an operator of the usual name in front of each.
gcd[a \in Nat, b \in Nat] == IF b = 0 THEN a ELSE gcd[b, a % b]
GCD(a, b) == gcd[a, b]

rat[n \in Int, d \in Int] ==
    LET g == GCD(Abs(n), Abs(d))
        sg == IF d < 0 THEN -1 ELSE 1
    IN  <<(sg * n) \div g, (sg * d) \div g>>
Rat(n, d) == rat[n, d]

RInt(n) == <<n, 1>>
rmul[x \in Int \X Int, y \in Int \X Int] ==
    LET g1 == GCD(Abs(x[1]), y[2])
        g2 == GCD(Abs(y[1]), x[2])
    IN  Rat((x[1] \div g1) * (y[1] \div g2), (x[2] \div g2) * (y[2] \div g1))
RMul(x, y) == rmul[x, y]
radd[x \in Int \X Int, y \in Int \X Int] ==
    LET g == GCD(x[2], y[2])
    IN  Rat(x[1] * (y[2] \div g) + y[1] * (x[2] \div g), (x[2] \div g) * y[2])
RAdd(x, y) == radd[x, y]
RNeg(x) == <<-x[1], x[2]>>
RSub(x, y) == RAdd(x, RNeg(y))
RDiv(x, y) == RMul(x, IF y[1] < 0 THEN <<-y[2], -y[1]>> ELSE <<y[2], y[1]>>)
rle[x \in Int \X Int, y \in Int \X Int] == x[1] * y[2] <= y[1] * x[2]
RLe(x, y) == rle[x, y]
rlt[x \in Int \X Int, y \in Int \X Int] == x[1] * y[2] < y[1] * x[2]
RLt(x, y) == rlt[x, y]
RGe(x, y) == RLe(y, x)
RGt(x, y) == RLt(y, x)
RZero == <<0, 1>>

ipow[x \in Int, p \in Nat] == IF p = 0 THEN 1 ELSE x * ipow[x, p - 1]
IPow(x, p) == ipow[x, p]

\* the largest k in lo..hi with k^p <= n, by bisection
irootin[n \in Nat, p \in Nat, lo \in Nat, hi \in Nat] ==
    IF lo = hi THEN lo
    ELSE LET mid == (lo + hi + 1) \div 2
         IN  IF IPow(mid, p) <= n THEN irootin[n, p, mid, hi]
             ELSE irootin[n, p, lo, mid - 1]
IRootIn(n, p, lo, hi) == irootin[n, p, lo, hi]

IRoot(n, p) == IRootIn(n, p, 0, IF n < RootMax THEN n ELSE RootMax)

\* x ** (1./p) for a rational x >= 0: exact when the root is rational,
\* otherwise rounded down to a multiple of 1/RootGrid.
rroot[x \in Int \X Int, p \in Nat] ==
    IF p = 1 THEN x
    ELSE LET rn == IRoot(x[1], p)
             rd == IRoot(x[2], p)
         IN  IF IPow(rn, p) = x[1] /\ IPow(rd, p) = x[2]
             THEN Rat(rn, rd)
             ELSE Rat(IRoot((x[1] * IPow(RootGrid, p)) \div x[2], p), RootGrid)
RRoot(x, p) == rroot[x, p]

(* ------------------------- tableau provider ---------------------------- *)
\* ButcherTableau.btilde of a tableau without an embedded method.
None == <<>>

\* The tableaux handed to the constructors.  A is lower triangular with unit
\* entries, b = c = (1, .., ns); btilde is absent ("none") or zero ("zero"),
\* so that b - btilde differs from stage to stage.  Shape "ok" is well formed; "long_c" has one
\* abscissa too many and "wide_A" one row and one column too many.
Tableau(ns, sh, bt, ord) ==
    [A |-> LET n == IF sh = "wide_A" THEN ns + 1 ELSE ns
           IN  [i \in 1..n |-> [j \in 1..n |-> IF j <= i THEN 1 ELSE 0]],
     b |-> [s \in 1..ns |-> s],
     c |-> [s \in 1..(IF sh = "long_c" THEN ns + 1 ELSE ns) |-> s],
     btilde |-> IF bt = "none" THEN None ELSE [s \in 1..ns |-> 0],
     order |-> ord]

\* ButcherTableau.order of the tableaux with an embedded method
Orders == {1, 2, 3}

Tableaux ==
    {Tableau(ns, "ok", "zero", ord) : ns \in 1..MaxStages, ord \in Orders}
    \cup {Tableau(ns, "ok", "none", 1) : ns \in 1..MaxStages}
    \cup {Tableau(ns, sh, "zero", 2) :
            ns \in 1..MaxStages, sh \in {"long_c", "wide_A"}}

\* Units: errors are measured in multiples of tol and times in multiples of
\* dtmin, the two keyword arguments of AdaptiveTimeStepper.__init__.
Tol == RInt(1)
DtMin == RInt(1)
DtInit == {<<3, 2>>, <<2, 1>>}

\* The values of norm(error_func) sampled for a non-zero error function and
\* a tableau of order ord: far below tol, tol itself, far above tol, and the
\* two values for which q is 2 and 1/2.
ErrVals(ord) ==
    LET p == IF ord > 1 THEN ord - 1 ELSE 1
    IN  { <<1, 10000>>, <<10000, 1>>, Tol,
          Rat(IPow(21, p), IPow(50, p)), Rat(IPow(42, p), IPow(25, p)) }

\* Stage values a converged solve may leave in the stage unknown.
StageSamples(n) ==
    { [j \in 1..n |-> RZero], [j \in 1..n |-> RInt(j)] }

(* ------------------- time element and quadrature ---------------------- *)
\* FIAT's tabulation of the time element of the given order at the point x
\* of the reference interval: DiscontinuousLagrange(ufc_line, 0) and the
\* equispaced Lagrange elements of order 1 and 2, dofs in FIAT's numbering
\* (vertex 0, vertex 1, interior).
TabulateVals(order, x) ==
    CASE order = 0 -> <<RInt(1)>>
      [] order = 1 -> <<RSub(RInt(1), x), x>>
      [] order = 2 ->
           << RMul(RInt(2), RMul(RSub(x, <<1, 2>>), RSub(x, RInt(1)))),
              RMul(RInt(2), RMul(x, RSub(x, <<1, 2>>))),
              RMul(RInt(4), RMul(x, RSub(RInt(1), x))) >>

TabulateDerivs(order, x) ==
    CASE order = 0 -> <<RZero>>
      [] order = 1 -> <<RInt(-1), RInt(1)>>
      [] order = 2 ->
           << RSub(RMul(RInt(4), x), RInt(3)),
              RSub(RMul(RInt(4), x), RInt(1)),
              RSub(RInt(4), RMul(RInt(8), x)) >>

\* element.entity_dofs(): [0][0], [1][0], [0][1] as 1-based dof numbers
EntityDofs(order) ==
    CASE order = 0 -> [v0 |-> <<>>, interior |-> <<1>>, v1 |-> <<>>]
      [] order = 1 -> [v0 |-> <<1>>, interior |-> <<>>, v1 |-> <<2>>]
      [] order = 2 -> [v0 |-> <<1>>, interior |-> <<3>>, v1 |-> <<2>>]

\* Quadrature rules: "default" is make_quadrature(ufc_line, order+1), modelled
\* for order 0 (the midpoint rule); "simpson" is a three point rule on the
\* reference interval and "triangle" a three point rule on another cell.
QuadratureRules == {"default", "midpoint", "simpson", "triangle"}
QuadPoints(rule) ==
    IF rule \in {"default", "midpoint"} THEN << <<1, 2>> >>
    ELSE << RZero, <<1, 2>>, RInt(1) >>
QuadWeights(rule) ==
    IF rule \in {"default", "midpoint"} THEN << RInt(1) >>
    ELSE << <<1, 6>>, <<2, 3>>, <<1, 6>> >>
QuadRefEl(rule) == IF rule = "triangle" THEN "ufc_triangle" ELSE "ufc_line"
QuadDim(rule) == IF rule = "triangle" THEN 2 ELSE 1

\* The orders and rules the DG constructor is called with.
DGArgs ==
    {<<-1, "default">>, <<0, "default">>, <<0, "simpson">>, <<0, "triangle">>,
     <<1, "simpson">>, <<1, "midpoint">>, <<2, "simpson">>}

(* ------------------------------- state --------------------------------- *)
VARIABLES
    args,        \* the constructor's arguments
    pc,          \* position of the caller / of the running advance()
    t, dt, u0,   \* the state shared with the caller
    num_fields, num_stages,
    stages,      \* the stage unknown of the nonlinear problem
    gcur,        \* <<t, dt>> the stage boundary data were last refreshed for
    delb, error_func, err,
    outcome,     \* how the latest advance() or constructor ended
    entry,       \* t, dt, u0 when the running advance() was entered
    solves,      \* number of completed solves
    dtSolve,     \* the dt the latest solve used
    errSolve,    \* the solve the latest error estimate was computed from
    updSolve,    \* the solve whose stages the latest _update() used
    updates,     \* number of _update() calls of the running advance()
    qfac,        \* the clamped q of the latest accept/reject decision
    bigF,        \* the coupled DG-in-time form
    UU,          \* the DG-in-time stage unknown
    num_steps, num_nonlinear_iterations, num_linear_iterations,
    snes,        \* <<nonlinear, linear>> iteration counts of the latest solve
    itlog,       \* the iteration counts of every completed DG solve
    calls, rejects

vars == <<args, pc, t, dt, u0, num_fields, num_stages, stages, gcur, delb,
          error_func, err, outcome, entry, solves, dtSolve, errSolve,
          updSolve, updates, qfac, bigF, UU, num_steps, num_nonlinear_iterations,
          num_linear_iterations, snes, itlog, calls, rejects>>

dgvars == <<bigF, UU, num_steps, num_nonlinear_iterations, num_linear_iterations,
            snes, itlog>>

Classes == {"TimeStepper", "AdaptiveTimeStepper"}

\* the splitting argument of TimeStepper.__init__
Splittings == {"AI", "IA"}

Init ==
    /\ args \in [cls : {"TimeStepper"}, tableau : Tableaux,
                 nf : 1..MaxFields, dt : DtInit, splitting : Splittings]
                \cup [cls : {"AdaptiveTimeStepper"}, tableau : Tableaux,
                      nf : 1..MaxFields, dt : DtInit, splitting : {"AI"}]
                \cup {[cls |-> "DiscontinuousGalerkinTimeStepper",
                       order |-> a[1], quadrature |-> a[2], nf |-> n, dt |-> d] :
                         a \in DGArgs, n \in 1..MaxFields, d \in DtInit}
    /\ pc = "new"
    /\ t = RZero
    /\ dt = args.dt
    /\ u0 = [i \in 1..args.nf |-> RInt(i)]
    /\ num_fields = 0
    /\ num_stages = 0
    /\ stages = <<>>
    /\ gcur = None
    /\ delb = None
    /\ error_func = <<>>
    /\ err = None
    /\ outcome = [kind |-> "none", value |-> None]
    /\ entry = [t |-> t, dt |-> dt, u0 |-> u0, solves |-> 0, rejects |-> 0]
    /\ solves = 0
    /\ dtSolve = None
    /\ errSolve = 0
    /\ updSolve = 0
    /\ updates = 0
    /\ qfac = None
    /\ bigF = None
    /\ UU = <<>>
    /\ num_steps = 0
    /\ num_nonlinear_iterations = 0
    /\ num_linear_iterations = 0
    /\ snes = <<0, 0>>
    /\ itlog = <<>>
    /\ calls = 0
    /\ rejects = 0

(* ---------------------------- construction ----------------------------- *)
\* getForm (irksome/getForm.py, not part of the sources at hand): the
\* precondition check on the tableau that the specification places at
\* construction: len(b) = len(c) = rows of A = columns of A.
getFormAccepts(tb) ==
    /\ Len(tb.c) = Len(tb.b)
    /\ Len(tb.A) = Len(tb.b)
    /\ \A i \in 1..Len(tb.A) : Len(tb.A[i]) = Len(tb.b)

\* assert butcher_tableau.btilde is not None
HasBtilde(tb) == tb.btilde # None

\* TimeStepper.__init__
TimeStepperInit ==
    /\ pc = "new"
    /\ args.cls = "TimeStepper"
    /\ IF getFormAccepts(args.tableau)
       THEN /\ num_fields' = args.nf
            /\ num_stages' = Len(args.tableau.b)
            /\ stages' = [j \in 1..(Len(args.tableau.b) * args.nf) |-> RZero]
            /\ pc' = "ready"
            /\ outcome' = [kind |-> "constructed", value |-> None]
       ELSE /\ pc' = "config_error"
            /\ outcome' = [kind |-> "getForm", value |-> None]
            /\ UNCHANGED <<num_fields, num_stages, stages>>
    /\ UNCHANGED <<args, t, dt, u0, gcur, delb, error_func, err, entry,
                   solves, dtSolve, errSolve, updSolve, updates, qfac, calls,
                   rejects,
                   dgvars>>

\* AdaptiveTimeStepper.__init__
AdaptiveTimeStepperInit ==
    /\ pc = "new"
    /\ args.cls = "AdaptiveTimeStepper"
    /\ IF ~HasBtilde(args.tableau)
       THEN /\ pc' = "config_error"
            /\ outcome' = [kind |-> "AssertionError", value |-> None]
            /\ UNCHANGED <<num_fields, num_stages, stages, delb, error_func>>
       ELSE IF ~getFormAccepts(args.tableau)
       THEN /\ pc' = "config_error"
            /\ outcome' = [kind |-> "getForm", value |-> None]
            /\ UNCHANGED <<num_fields, num_stages, stages, delb, error_func>>
       ELSE /\ num_fields' = args.nf
            /\ num_stages' = Len(args.tableau.b)
            /\ stages' = [j \in 1..(Len(args.tableau.b) * args.nf) |-> RZero]
            /\ delb' = [s \in 1..Len(args.tableau.b) |->
                          args.tableau.b[s] - args.tableau.btilde[s]]
            /\ error_func' = [i \in 1..args.nf |-> RZero]
            /\ pc' = "ready"
            /\ outcome' = [kind |-> "constructed", value |-> None]
    /\ UNCHANGED <<args, t, dt, u0, gcur, err, entry, solves, dtSolve,
                   errSolve, updSolve, updates, qfac, calls, rejects,
                   dgvars>>


(* ------------------------------ helpers -------------------------------- *)
RECURSIVE RSum(_, _)
\* f[1] + .. + f[n], accumulated in the order of the source's loops
RSum(f, n) == IF n = 0 THEN RZero ELSE RAdd(RSum(f, n - 1), f[n])

\* self.ks: the stage function itself for one stage and one field,
\* stages.split() otherwise
Ks == IF num_stages = 1 /\ num_fields = 1 THEN <<stages[1]>> ELSE stages

\* A1, A2 = self.splitting(self.butcher_tableau.A): AI gives (A, identity),
\* the caller's alternative IA gives (identity, A)
Identity(n) == [r \in 1..n |-> [c \in 1..n |-> IF r = c THEN 1 ELSE 0]]
Splitting(name, A) ==
    IF name = "AI" THEN <<A, Identity(Len(A))>> ELSE <<Identity(Len(A)), A>>

RECURSIVE DotPrefix(_, _, _)
\* row[1] * w[1] + .. + row[k] * w[k]
DotPrefix(row, w, k) ==
    IF k = 0 THEN 0 ELSE DotPrefix(row, w, k - 1) + row[k] * w[k]

RECURSIVE LinSolve(_, _, _)
\* The first n entries of numpy.linalg.solve(M, b).  The matrices A2 that
\* occur are lower triangular with unit diagonal, for which the solve is a
\* forward substitution and the result is exact.
LinSolve(M, b, n) ==
    IF n = 0 THEN <<>>
    ELSE LET w == LinSolve(M, b, n - 1)
         IN  Append(w, (b[n] - DotPrefix(M[n], w, n - 1)) \div M[n][n])

\* A1, A2 = self.splitting(A); b = numpy.linalg.solve(A2, b)
UpdateWeights(tb, sp) == LinSolve(Splitting(sp, tb.A)[2], tb.b, Len(tb.b))

UpdatedU0MutTwice(u, dtc, w, ks, ns, nf) ==
    [i \in 1..nf |->
        RAdd(u[i], RSum([s \in 1..ns |->
                RMul(RInt(2), RMul(dtc, RMul(RInt(w[s]), ks[nf * (s - 1) + i])))],
                ns))]

UpdatedU0MutFieldMajor(u, dtc, w, ks, ns, nf) ==
    [i \in 1..nf |->
        RAdd(u[i], RSum([s \in 1..ns |->
                RMul(dtc, RMul(RInt(w[s]), ks[ns * (i - 1) + s]))], ns))]

\* The value of u0 after TimeStepper._update():
\* u0d.data[:] += dtc * b[s] * ks[nf*s+i].dat.data_ro for every s and i
UpdatedU0(u, dtc, w, ks, ns, nf) ==
    [i \in 1..nf |->
        RAdd(u[i], RSum([s \in 1..ns |->
                RMul(dtc, RMul(RInt(w[s]), ks[nf * (s - 1) + i]))], ns))]

\* AdaptiveTimeStepper._estimate_error() raises IndexError at delb[i]
EstimateIndexError(ns, nf) == nf > ns

\* error_func after the loops of _estimate_error(), when they complete
ErrorFunc(dtc, db, ks, ns, nf) ==
    [i \in 1..nf |->
        RSum([s \in 1..ns |->
                RMul(dtc, RMul(RInt(db[i]), ks[nf * (s - 1) + i]))], ns)]

\* error_func when delb[i] raises: stage 0 has been added for the fields
\* below len(delb), the others still hold the 0.0 they were reset to
ErrorFuncPartial(dtc, db, ks, ns, nf) ==
    [i \in 1..nf |->
        IF i <= ns THEN RMul(dtc, RMul(RInt(db[i]), ks[i])) ELSE RZero]

\* firedrake.norm: zero for the zero function only; its value for another
\* function depends on the mesh and is any positive number
NormValues(ef, samples) ==
    IF \A i \in DOMAIN ef : ef[i] = RZero THEN {RZero} ELSE samples

(* ------------------------ step size controller ------------------------- *)
Safety == <<84, 100>>
QMin == <<1, 10>>
QMax == <<4, 1>>
Inf == <<1, 0>>

\* tol / err raises ZeroDivisionError on Python floats and is inf on numpy
\* floats; 1./(order-1) raises ZeroDivisionError for order 1
QRaises(e, ord, numpyFloat) ==
    \/ e = RZero /\ ~numpyFloat
    \/ ord = 1

\* q = 0.84 * (self.tol / err)**(1./(self.butcher_tableau.order-1))
QRaw(e, ord) ==
    IF e = RZero THEN Inf
    ELSE RMul(Rat(Safety[1], Safety[2]), RRoot(RDiv(Tol, e), ord - 1))

ClampMutNoLower(q) ==
    IF q = Inf THEN QMax
    ELSE IF RGe(q, QMax) THEN QMax
    ELSE q

\* if q <= 0.1: q = 0.1 elif q >= 4.0: q = 4.0
Clamp(q) ==
    IF q = Inf THEN QMax
    ELSE IF RLe(q, QMin) THEN QMin
    ELSE IF RGe(q, QMax) THEN QMax
    ELSE q

\* dtnew = q * float(self.dt)
DtNew(e, ord, dtc) == RMul(Clamp(QRaw(e, ord)), dtc)

RejectTestMutStrict(e) == RGt(e, Tol)

\* if err >= self.tol
RejectTest(e) == RGe(e, Tol)

MinStepTestMutDouble(dn) == RLe(dn, RMul(RInt(2), DtMin))

\* elif dtnew <= self.dt_min
MinStepTest(dn) == RLe(dn, DtMin)


(* ------------------------------ advance() ------------------------------ *)
Adaptive == args.cls = "AdaptiveTimeStepper"
Base == args.cls = "TimeStepper"
DG == args.cls = "DiscontinuousGalerkinTimeStepper"

\* The caller invokes advance() on a constructed stepper.
AdvanceEnter ==
    /\ pc = "ready"
    /\ calls < MaxCalls
    /\ calls' = calls + 1
    /\ entry' = [t |-> t, dt |-> dt, u0 |-> u0, solves |-> solves,
                 rejects |-> rejects]
    /\ updates' = 0
    /\ outcome' = [kind |-> "running", value |-> None]
    /\ pc' = IF DG THEN "dgsolve" ELSE "refresh"
    /\ UNCHANGED <<args, t, dt, u0, num_fields, num_stages, stages, gcur,
                   delb, error_func, err, solves, dtSolve, errSolve, updSolve,
                   qfac, rejects,
                   dgvars>>

RefreshBCsMutOnce ==
    /\ pc = "refresh"
    /\ gcur' = IF gcur = None THEN <<t, dt>> ELSE gcur
    /\ pc' = "solve"
    /\ UNCHANGED <<args, t, dt, u0, num_fields, num_stages, stages, delb,
                   error_func, err, outcome, entry, solves, dtSolve, errSolve,
                   updSolve, updates, qfac, calls, rejects,
                   dgvars>>

\* for gdat, gcur, gmethod in self.bigBCdata: gmethod(gcur, self.u0)
RefreshBCs ==
    /\ pc = "refresh"
    /\ gcur' = <<t, dt>>
    /\ pc' = "solve"
    /\ UNCHANGED <<args, t, dt, u0, num_fields, num_stages, stages, delb,
                   error_func, err, outcome, entry, solves, dtSolve, errSolve,
                   updSolve, updates, qfac, calls, rejects,
                   dgvars>>

\* self.solver.solve() converges and leaves the stage values in place
SolveConverges ==
    /\ pc = "solve"
    /\ stages' \in StageSamples(num_stages * num_fields)
    /\ solves' = solves + 1
    /\ dtSolve' = dt
    /\ pc' = IF Adaptive THEN "estimate" ELSE "update"
    /\ UNCHANGED <<args, t, dt, u0, num_fields, num_stages, gcur, delb,
                   error_func, err, outcome, entry, errSolve, updSolve,
                   updates, qfac, calls, rejects,
                   dgvars>>

SolveFailsMutRetries ==
    /\ pc = "solve"
    /\ stages' \in StageSamples(num_stages * num_fields)
    /\ outcome' = [kind |-> "ConvergenceError", value |-> None]
    /\ dt' = RMul(<<1, 2>>, dt)
    /\ pc' = "refresh"
    /\ UNCHANGED <<args, t, u0, num_fields, num_stages, gcur,
                   delb, error_func, err, entry, solves, dtSolve, errSolve,
                   updSolve, updates, qfac, calls, rejects,
                   dgvars>>

\* self.solver.solve() raises; nothing in advance() catches it.  The stage
\* unknown is left holding the solver's last iterate.
SolveFails ==
    /\ pc = "solve"
    /\ stages' \in StageSamples(num_stages * num_fields)
    /\ outcome' = [kind |-> "ConvergenceError", value |-> None]
    /\ pc' = "ready"
    /\ UNCHANGED <<args, t, dt, u0, num_fields, num_stages, gcur,
                   delb, error_func, err, entry, solves, dtSolve, errSolve,
                   updSolve, updates, qfac, calls, rejects,
                   dgvars>>

UpdateAndReturnMutAdvancesT ==
    /\ pc = "update"
    /\ u0' = UpdatedU0(u0, dt, UpdateWeights(args.tableau, args.splitting), Ks,
                       num_stages, num_fields)
    /\ t' = RAdd(t, dt)
    /\ updSolve' = solves
    /\ updates' = updates + 1
    /\ outcome' = [kind |-> "returned", value |-> None]
    /\ pc' = "ready"
    /\ UNCHANGED <<args, dt, num_fields, num_stages, stages, gcur, delb,
                   error_func, err, entry, solves, dtSolve, errSolve, qfac,
                   calls, rejects, dgvars>>

\* TimeStepper.advance: self._update(), then the call returns None
UpdateAndReturn ==
    /\ pc = "update"
    /\ u0' = UpdatedU0(u0, dt, UpdateWeights(args.tableau, args.splitting), Ks,
                       num_stages, num_fields)
    /\ updSolve' = solves
    /\ updates' = updates + 1
    /\ outcome' = [kind |-> "returned", value |-> None]
    /\ pc' = "ready"
    /\ UNCHANGED <<args, t, dt, num_fields, num_stages, stages, gcur, delb,
                   error_func, err, entry, solves, dtSolve, errSolve, qfac,
                   calls, rejects,
                   dgvars>>

\* err = self._estimate_error()
EstimateError ==
    /\ pc = "estimate"
    /\ IF EstimateIndexError(num_stages, num_fields)
       THEN /\ error_func' = ErrorFuncPartial(dt, delb, Ks, num_stages,
                                              num_fields)
            /\ outcome' = [kind |-> "IndexError", value |-> None]
            /\ pc' = "ready"
            /\ UNCHANGED <<err, errSolve>>
       ELSE /\ error_func' = ErrorFunc(dt, delb, Ks, num_stages, num_fields)
            /\ err' \in NormValues(error_func', ErrVals(args.tableau.order))
            /\ errSolve' = solves
            /\ pc' = "decide"
            /\ UNCHANGED outcome
    /\ UNCHANGED <<args, t, dt, u0, num_fields, num_stages, stages, gcur,
                   delb, entry, solves, dtSolve, updSolve, updates, qfac,
                   calls, rejects,
                   dgvars>>

\* the computation of q raises ZeroDivisionError
QFactorRaises ==
    /\ pc = "decide"
    /\ \E numpyFloat \in BOOLEAN : QRaises(err, args.tableau.order, numpyFloat)
    /\ outcome' = [kind |-> "ZeroDivisionError", value |-> None]
    /\ pc' = "ready"
    /\ UNCHANGED <<args, t, dt, u0, num_fields, num_stages, stages, gcur,
                   delb, error_func, err, entry, solves, dtSolve, errSolve,
                   updSolve, updates, qfac, calls, rejects,
                   dgvars>>

RejectMutNoResolve ==
    /\ pc = "decide"
    /\ \E numpyFloat \in BOOLEAN : ~QRaises(err, args.tableau.order, numpyFloat)
    /\ RejectTest(err)
    /\ rejects < MaxRejects
    /\ rejects' = rejects + 1
    /\ qfac' = Clamp(QRaw(err, args.tableau.order))
    /\ dt' = DtNew(err, args.tableau.order, dt)
    /\ pc' = "estimate"
    /\ UNCHANGED <<args, t, u0, num_fields, num_stages, stages, gcur, delb,
                   error_func, err, outcome, entry, solves, dtSolve, errSolve,
                   updSolve, updates, calls,
                   dgvars>>

\* if err >= self.tol: self.dt.assign(dtnew), and the loop goes round
Reject ==
    /\ pc = "decide"
    /\ \E numpyFloat \in BOOLEAN : ~QRaises(err, args.tableau.order, numpyFloat)
    /\ RejectTest(err)
    /\ rejects < MaxRejects
    /\ rejects' = rejects + 1
    /\ qfac' = Clamp(QRaw(err, args.tableau.order))
    /\ dt' = DtNew(err, args.tableau.order, dt)
    /\ pc' = "refresh"
    /\ UNCHANGED <<args, t, u0, num_fields, num_stages, stages, gcur, delb,
                   error_func, err, outcome, entry, solves, dtSolve, errSolve,
                   updSolve, updates, calls,
                   dgvars>>

RaiseMinStepMutRestores ==
    /\ pc = "decide"
    /\ \E numpyFloat \in BOOLEAN : ~QRaises(err, args.tableau.order, numpyFloat)
    /\ ~RejectTest(err)
    /\ MinStepTest(DtNew(err, args.tableau.order, dt))
    /\ qfac' = Clamp(QRaw(err, args.tableau.order))
    /\ dt' = entry.dt
    /\ outcome' = [kind |-> "RuntimeError", value |-> None]
    /\ pc' = "ready"
    /\ UNCHANGED <<args, t, u0, num_fields, num_stages, stages, gcur,
                   delb, error_func, err, entry, solves, dtSolve, errSolve,
                   updSolve, updates, calls, rejects,
                   dgvars>>

\* elif dtnew <= self.dt_min: raise RuntimeError
RaiseMinStep ==
    /\ pc = "decide"
    /\ \E numpyFloat \in BOOLEAN : ~QRaises(err, args.tableau.order, numpyFloat)
    /\ ~RejectTest(err)
    /\ MinStepTest(DtNew(err, args.tableau.order, dt))
    /\ qfac' = Clamp(QRaw(err, args.tableau.order))
    /\ outcome' = [kind |-> "RuntimeError", value |-> None]
    /\ pc' = "ready"
    /\ UNCHANGED <<args, t, dt, u0, num_fields, num_stages, stages, gcur,
                   delb, error_func, err, entry, solves, dtSolve, errSolve,
                   updSolve, updates, calls, rejects,
                   dgvars>>

\* else: self._update(); self.dt.assign(dtnew); return (err, dtnew)
Accept ==
    /\ pc = "decide"
    /\ \E numpyFloat \in BOOLEAN : ~QRaises(err, args.tableau.order, numpyFloat)
    /\ ~RejectTest(err)
    /\ ~MinStepTest(DtNew(err, args.tableau.order, dt))
    /\ qfac' = Clamp(QRaw(err, args.tableau.order))
    /\ u0' = UpdatedU0(u0, dt, UpdateWeights(args.tableau, args.splitting), Ks,
                       num_stages, num_fields)
    /\ updSolve' = solves
    /\ updates' = updates + 1
    /\ dt' = DtNew(err, args.tableau.order, dt)
    /\ outcome' = [kind |-> "returned",
                   value |-> <<err, DtNew(err, args.tableau.order, dt)>>]
    /\ pc' = "ready"
    /\ UNCHANGED <<args, t, num_fields, num_stages, stages, gcur, delb,
                   error_func, err, entry, solves, dtSolve, errSolve, calls,
                   rejects,
                   dgvars>>

(* ------------------------- DG-in-time stepper -------------------------- *)
\* perm = [*edofs[0][0], *edofs[1][0], *edofs[0][1]]
Perm(order) ==
    EntityDofs(order).v0 \o EntityDofs(order).interior \o EntityDofs(order).v1

\* basis_vals[perm] and basis_dvals[perm]: row i, quadrature point q
BasisVals(order, rule) ==
    [i \in 1..Len(Perm(order)) |->
        [q \in 1..Len(QuadPoints(rule)) |->
            TabulateVals(order, QuadPoints(rule)[q])[Perm(order)[i]]]]

BasisDVals(order, rule) ==
    [i \in 1..Len(Perm(order)) |->
        [q \in 1..Len(QuadPoints(rule)) |->
            TabulateDerivs(order, QuadPoints(rule)[q])[Perm(order)[i]]]]

\* The semi-discrete problem of field i is du/dt + Lambda(i) u = 0: its
\* time-derivative part without the derivative is (u, v), its remainder
\* Lambda(i) (u, v).
Lambda(i) == i

\* The quadrature sums of Fnew that do not depend on dt, for test stage i and
\* stage unknown j: sum_q qwts[q] * basis_vals[i, q] * basis_dvals[j, q] of
\* the terms with time derivatives, and sum_q qwts[q] * basis_vals[i, q] *
\* basis_vals[j, q] of the rest of the terms
TimeTermSums(order, rule) ==
    LET ns == Len(Perm(order))
        nq == Len(QuadWeights(rule))
    IN  [i \in 1..ns |-> [j \in 1..ns |->
            RSum([q \in 1..nq |->
                    RMul(RMul(QuadWeights(rule)[q], BasisVals(order, rule)[i][q]),
                         BasisDVals(order, rule)[j][q])], nq)]]

RestTermSums(order, rule) ==
    LET ns == Len(Perm(order))
        nq == Len(QuadWeights(rule))
    IN  [i \in 1..ns |-> [j \in 1..ns |->
            RSum([q \in 1..nq |->
                    RMul(RMul(QuadWeights(rule)[q], BasisVals(order, rule)[i][q]),
                         BasisVals(order, rule)[j][q])], nq)]]

\* the jump term: u_np[0] - u0 tested with v_np[0]
JumpCoeff(i, j) == IF i = 1 /\ j = 1 THEN RInt(1) ELSE RZero

\* Fnew for test stage i, as the coefficient of stage unknown j, at the
\* current value of dt: dt * (1/dt) * (time derivative sums) + jump +
\* dt * lam * (remainder sums)
FnewCoeffMutNoDt(F, dtc, lam, i, j) ==
    RAdd(RAdd(RMul(RMul(dtc, RDiv(RInt(1), dtc)), F.time[i][j]),
              JumpCoeff(i, j)),
         RMul(RInt(lam), F.rest[i][j]))

FnewCoeff(F, dtc, lam, i, j) ==
    RAdd(RAdd(RMul(RMul(dtc, RDiv(RInt(1), dtc)), F.time[i][j]),
              JumpCoeff(i, j)),
         RMul(RMul(dtc, RInt(lam)), F.rest[i][j]))

\* the part of Fnew for test stage i that does not depend on the unknowns:
\* the -u0 of the jump term
FnewConst(i, u) == IF i = 1 THEN RNeg(u) ELSE RZero

\* determinant of the n x n matrix M of rationals, n <= 3
Det2(a, b, c, d) == RSub(RMul(a, d), RMul(b, c))

Det(M, n) ==
    CASE n = 1 -> M[1][1]
      [] n = 2 -> Det2(M[1][1], M[1][2], M[2][1], M[2][2])
      [] n = 3 ->
           RAdd(RSub(RMul(M[1][1], Det2(M[2][2], M[2][3], M[3][2], M[3][3])),
                     RMul(M[1][2], Det2(M[2][1], M[2][3], M[3][1], M[3][3]))),
                RMul(M[1][3], Det2(M[2][1], M[2][2], M[3][1], M[3][2])))

\* The stage values the solver converges to for one field: the solution of
\* Fnew = 0, a linear system in the stage unknowns.  Fnew is linear in u0, so
\* the solution for u0 = u is u times the solution for u0 = 1.
DGStageValues(F, n, dtc, lam, u) ==
    LET M == [i \in 1..n |-> [j \in 1..n |-> FnewCoeff(F, dtc, lam, i, j)]]
        rhs == [i \in 1..n |-> RNeg(FnewConst(i, RInt(1)))]
    IN  [j \in 1..n |->
            RMul(u, RDiv(Det([i \in 1..n |-> [c \in 1..n |->
                                IF c = j THEN rhs[i] ELSE M[i][c]]], n),
                         Det(M, n)))]

DGSolvable(F, n, dtc, lam) ==
    Det([i \in 1..n |-> [j \in 1..n |-> FnewCoeff(F, dtc, lam, i, j)]], n)
        # RZero

\* UU after a converged solve: sub-function num_fields*s + i holds stage s of
\* field i
DGSolution(F, n, dtc, u, nf) ==
    [k \in 1..(nf * n) |->
        LET i == ((k - 1) % nf) + 1
            s == ((k - 1) \div nf) + 1
        IN  DGStageValues(F, n, dtc, Lambda(i), u[i])[s]]

\* the iteration counts snes reports for a solve
ItCounts == {<<1, 1>>, <<2, 3>>}

\* assert order >= 0
OrderOk(order) == order >= 0

QuadratureEnoughMutNoCheck(order, rule) == TRUE

\* assert np.size(quadrature.get_points()) >= order+1
QuadratureEnough(order, rule) ==
    Len(QuadPoints(rule)) * QuadDim(rule) >= order + 1

\* getFormDiscGalerkin: assert Q.ref_el.get_spatial_dimension() == 1 and
\* assert L.get_reference_element() == Q.ref_el
RefCellsMatch(rule) == QuadDim(rule) = 1 /\ "ufc_line" = QuadRefEl(rule)

\* DiscontinuousGalerkinTimeStepper.__init__
DGInit ==
    /\ pc = "new"
    /\ DG
    /\ IF \/ ~OrderOk(args.order)
          \/ ~QuadratureEnough(args.order, args.quadrature)
          \/ ~RefCellsMatch(args.quadrature)
       THEN /\ pc' = "config_error"
            /\ outcome' = [kind |-> "AssertionError", value |-> None]
            /\ UNCHANGED <<num_fields, num_stages, UU, bigF>>
       ELSE /\ num_fields' = args.nf
            /\ num_stages' = Len(Perm(args.order))
            /\ bigF' = [time |-> TimeTermSums(args.order, args.quadrature),
                        rest |-> RestTermSums(args.order, args.quadrature)]
            /\ UU' = [k \in 1..(args.nf * Len(Perm(args.order))) |-> RZero]
            /\ pc' = "ready"
            /\ outcome' = [kind |-> "constructed", value |-> None]
    /\ num_steps' = 0
    /\ num_nonlinear_iterations' = 0
    /\ num_linear_iterations' = 0
    /\ UNCHANGED <<args, t, dt, u0, stages, gcur, delb, error_func, err,
                   entry, solves, dtSolve, errSolve, updSolve, updates, qfac,
                   snes, itlog, calls, rejects>>

\* self.solver.solve() converges
DGSolveConverges ==
    /\ pc = "dgsolve"
    /\ \A i \in 1..num_fields : DGSolvable(bigF, num_stages, dt, Lambda(i))
    /\ UU' = DGSolution(bigF, num_stages, dt, u0, num_fields)
    /\ snes' \in ItCounts
    /\ itlog' = Append(itlog, snes')
    /\ solves' = solves + 1
    /\ dtSolve' = dt
    /\ pc' = "dgrecord"
    /\ UNCHANGED <<args, t, dt, u0, num_fields, num_stages, stages, gcur,
                   delb, error_func, err, outcome, entry, errSolve, updSolve,
                   updates, qfac, bigF, num_steps, num_nonlinear_iterations,
                   num_linear_iterations, calls, rejects>>

\* self.solver.solve() raises; UU is left holding the solver's last iterate
DGSolveFails ==
    /\ pc = "dgsolve"
    /\ UU' \in {UU, [k \in 1..(num_fields * num_stages) |-> RZero]}
    /\ outcome' = [kind |-> "ConvergenceError", value |-> None]
    /\ pc' = "ready"
    /\ UNCHANGED <<args, t, dt, u0, num_fields, num_stages, stages, gcur,
                   delb, error_func, err, entry, solves, dtSolve, errSolve,
                   updSolve, updates, qfac, calls, rejects, bigF, num_steps,
                   num_nonlinear_iterations, num_linear_iterations, snes,
                   itlog>>

StepsAfterMutNoCount(n) == n

\* self.num_steps += 1
StepsAfter(n) == n + 1

LastStageMutFirst(UUs, nf, order) == [i \in 1..nf |-> UUs[i]]

\* u0bit.assign(UUs[self.num_fields*(self.order)+i]) for every field i
LastStage(UUs, nf, order) == [i \in 1..nf |-> UUs[nf * order + i]]

\* the statistics and the assignment to u0 that follow the solve
DGRecord ==
    /\ pc = "dgrecord"
    /\ num_steps' = StepsAfter(num_steps)
    /\ num_nonlinear_iterations' = num_nonlinear_iterations + snes[1]
    /\ num_linear_iterations' = num_linear_iterations + snes[2]
    /\ u0' = LastStage(UU, num_fields, args.order)
    /\ updSolve' = solves
    /\ updates' = updates + 1
    /\ outcome' = [kind |-> "returned", value |-> None]
    /\ pc' = "ready"
    /\ UNCHANGED <<args, t, dt, num_fields, num_stages, stages, gcur, delb,
                   error_func, err, entry, solves, dtSolve, errSolve, qfac,
                   bigF, UU, snes, itlog, calls, rejects>>

\* DiscontinuousGalerkinTimeStepper.solver_stats()
solver_stats ==
    <<num_steps, num_nonlinear_iterations, num_linear_iterations>>

Next ==
    \/ TimeStepperInit
    \/ AdaptiveTimeStepperInit
    \/ DGInit
    \/ AdvanceEnter
    \/ RefreshBCs
    \/ SolveConverges
    \/ SolveFails
    \/ UpdateAndReturn
    \/ EstimateError
    \/ QFactorRaises
    \/ Reject
    \/ RaiseMinStep
    \/ Accept
    \/ DGSolveConverges
    \/ DGSolveFails
    \/ DGRecord

Spec == Init /\ [][Next]_vars

(* ------------------------------ properties ----------------------------- *)
Returned == pc = "ready" /\ outcome.kind = "returned"
Raised(kind) == pc = "ready" /\ outcome.kind = kind

\* the q computation of the pending accept/reject decision yields a number
QComputes == args.tableau.order > 1

\* dt_c * sum over the stages s of w[s] * k[nf*s+i], for field i
WeightedIncrement(dtc, w, ks, ns, nf, i) ==
    RMul(dtc, RSum([s \in 1..ns |-> RMul(RInt(w[s]), ks[nf * (s - 1) + i])], ns))

\* C1: when the adaptive advance() returns (err, dtnew), err is strictly below
\* tol, and err is the estimate computed from the solve whose stage values
\* _update() has just added to u0.
C1_ReturnedErrorBelowTol ==
    (Adaptive /\ Returned) =>
        /\ RLt(outcome.value[1], Tol)
        /\ outcome.value[1] = err
        /\ errSolve = solves
        /\ updSolve = solves
        /\ u0 = [i \in 1..num_fields |->
                    RAdd(entry.u0[i],
                         WeightedIncrement(dtSolve, args.tableau.b, stages,
                                           num_stages, num_fields, i))]

\* C1 witness: a step accepted after at least one rejection in the same call
C1_Witness ==
    Adaptive /\ Returned /\ solves > entry.solves + 1

\* C2: in every iteration that computes it, the scale factor q lies in
\* [0.1, 4.0] and dtnew = q * dt for the dt of that iteration's solve, so
\* 0.1 <= dtnew / dt <= 4.0, whatever the error estimate.
C2_QClamped ==
    /\ qfac # None => RLe(QMin, qfac) /\ RLe(qfac, QMax)
    /\ (Adaptive /\ pc = "decide" /\ QComputes) =>
          LET dn == DtNew(err, args.tableau.order, dt)
          IN  /\ RLe(QMin, RDiv(dn, dt))
              /\ RLe(RDiv(dn, dt), QMax)
    /\ (Adaptive /\ pc \in {"refresh", "solve"} /\ solves > entry.solves) =>
          dt = RMul(qfac, dtSolve)
    /\ (Adaptive /\ Returned) =>
          /\ outcome.value[2] = RMul(qfac, dtSolve)
          /\ dt = outcome.value[2]

\* C2 witness: a rejection whose raw q was below 0.1 and one accepted step
\* whose raw q was above 4.0 have both been seen to be clamped
C2_Witness ==
    /\ Adaptive /\ Returned
    /\ qfac = QMax
    /\ RLt(err, <<1, 100>>)
    /\ \E r \in 1..MaxRejects : rejects = r /\ RLt(dtSolve, RMul(<<1, 5>>, entry.dt))

\* C3 (as claimed): no adaptive advance() returns after committing a step
\* whose solve used a dt smaller than dt_min.
C3_NoCommitBelowDtMin ==
    (Adaptive /\ Returned) => RGe(dtSolve, DtMin)

\* C4: an iteration with 0 <= err < tol whose q is computed and whose
\* dtnew = q * dt exceeds dt_min accepts: _update() is applied exactly once,
\* dt becomes dtnew and the call returns (err, dtnew).
C4_PassingStepAccepted ==
    [][ ( /\ Adaptive /\ pc = "decide" /\ QComputes
          /\ RLe(RZero, err) /\ RLt(err, Tol)
          /\ RGt(DtNew(err, args.tableau.order, dt), DtMin)
          /\ outcome'.kind # "ZeroDivisionError" )
        => ( /\ pc' = "ready"
             /\ outcome' = [kind |-> "returned",
                            value |-> <<err, DtNew(err, args.tableau.order, dt)>>]
             /\ dt' = DtNew(err, args.tableau.order, dt)
             /\ updates = 0 /\ updates' = 1
             /\ u0' = [i \in 1..num_fields |->
                         RAdd(u0[i],
                              WeightedIncrement(dt, args.tableau.b, stages,
                                                num_stages, num_fields, i))] )
      ]_vars

\* C4 witness: an accepted step that changed u0 and dt
C4_Witness ==
    /\ Adaptive /\ Returned /\ updates = 1
    /\ u0 # entry.u0 /\ dt # entry.dt /\ RLt(RZero, err)

C6_BaseAdvanceFrame ==
    (Base /\ calls >= 1) =>
        /\ t = entry.t /\ dt = entry.dt
        /\ t = RZero /\ dt = args.dt

\* C6 witness: a second call has returned and has changed u0
C6_Witness ==
    Base /\ Returned /\ calls = 2 /\ u0 # entry.u0

RECURSIVE LogSum(_, _, _)
\* log[1][k] + .. + log[n][k]
LogSum(log, k, n) == IF n = 0 THEN 0 ELSE LogSum(log, k, n - 1) + log[n][k]

\* C7: between calls solver_stats() is (number of advance() calls whose solve
\* completed, sum of their nonlinear iteration counts, sum of their linear
\* iteration counts); the counters start at 0, never decrease, and a call
\* whose solve fails leaves them as they were.
C7_SolverStats ==
    /\ [](DG /\ pc = "ready" =>
            solver_stats = <<Len(itlog), LogSum(itlog, 1, Len(itlog)),
                             LogSum(itlog, 2, Len(itlog))>>)
    /\ [][DG => /\ pc = "new" /\ pc' = "ready" => solver_stats' = <<0, 0, 0>>
                /\ pc # "new" => \A k \in 1..3 : solver_stats'[k] >= solver_stats[k]
                /\ pc = "dgsolve" /\ pc' = "ready" => solver_stats' = solver_stats
         ]_vars

\* C7 witness: a call whose solve failed, after a call that completed
C7_Witness ==
    /\ DG /\ Raised("ConvergenceError")
    /\ calls = 2 /\ num_steps = 1 /\ num_linear_iterations = 3

\* The stage of the one-stage implicit Euler method (A = [[1]], b = [1]) for
\* du/dt + lam u = 0: k with k + lam (u + dt k) = 0.
ImplicitEulerStage(u, dtc, lam) ==
    RDiv(RNeg(RMul(RInt(lam), u)), RAdd(RInt(1), RMul(RInt(lam), dtc)))

\* C8: with order 0 the DG stepper has one stage, the time-derivative sums of
\* its form vanish, the stage value U solves (U - u0) + dt * lam * U = 0 and
\* becomes u0, so that advance() maps u0 to u0 / (1 + lam dt), which is also
\* what TimeStepper._update() gives for the implicit Euler stage.
C8_DG0IsImplicitEuler ==
    (DG /\ args.order = 0 /\ pc \notin {"new", "config_error"}) =>
        /\ num_stages = 1
        /\ bigF.time[1][1] = RZero
        /\ Returned =>
            /\ \A i \in 1..num_fields :
                /\ RAdd(RSub(UU[i], entry.u0[i]),
                        RMul(RMul(entry.dt, RInt(Lambda(i))), UU[i])) = RZero
                /\ u0[i] = RDiv(entry.u0[i],
                                RAdd(RInt(1), RMul(RInt(Lambda(i)), entry.dt)))
            /\ u0 = UU
            /\ u0 = UpdatedU0(entry.u0, entry.dt, <<1>>,
                              [i \in 1..num_fields |->
                                 ImplicitEulerStage(entry.u0[i], entry.dt,
                                                    Lambda(i))],
                              1, num_fields)

\* C8 witness: two DG(0) steps of size 3/2 have taken u0 = 1 to 4/25
C8_Witness ==
    /\ DG /\ args.order = 0 /\ Returned /\ calls = 2
    /\ dt = <<3, 2>> /\ u0[1] = <<4, 25>>

\* the constructor's arguments are a configuration error
BadConfig ==
    \/ Adaptive /\ args.tableau.btilde = None
    \/ /\ ~DG
       /\ LET tb == args.tableau
          IN  ~ /\ Len(tb.c) = Len(tb.b)
                /\ Len(tb.A) = Len(tb.b)
                /\ \A r \in 1..Len(tb.A) : Len(tb.A[r]) = Len(tb.b)
    \/ /\ DG
       /\ \/ args.order < 0
          \/ Len(QuadPoints(args.quadrature)) < args.order + 1
          \/ QuadRefEl(args.quadrature) # "ufc_line"

\* C9: a stepper whose arguments are a configuration error (no btilde for the
\* adaptive stepper, a malformed tableau, a negative DG order, too few
\* quadrature points, a quadrature rule on another reference cell) never
\* leaves its constructor: no advance() is ever entered on it.
C9_ConfigErrorsAtConstruction ==
    BadConfig => /\ pc \in {"new", "config_error"}
                 /\ calls = 0 /\ solves = 0

\* C9 witness: the constructor has refused a DG stepper of order 1 with a one
\* point quadrature rule
C9_Witness ==
    /\ pc = "config_error" /\ DG
    /\ args.order = 1 /\ args.quadrature = "midpoint"

\* C10 (as claimed): after _estimate_error(), field i of the error function
\* is dt * sum over the stages s of (b[s] - btilde[s]) * k[nf*s+i].
C10_ErrorFuncStageWeights ==
    (Adaptive /\ pc = "decide") =>
        \A i \in 1..num_fields :
            error_func[i] =
                WeightedIncrement(dt, delb, Ks, num_stages, num_fields, i)

C13_SolveFailurePropagates ==
    /\ [](Raised("ConvergenceError") =>
            /\ pc = "ready"
            /\ u0 = entry.u0
            /\ t = entry.t
            /\ updates = 0
            /\ (rejects = entry.rejects => dt = entry.dt))
    /\ [][(pc \in {"solve", "dgsolve"} /\ pc' \notin {"estimate", "update",
                                                      "dgrecord"}) =>
            /\ outcome'.kind = "ConvergenceError"
            /\ pc' = "ready"
            /\ u0' = u0 /\ dt' = dt /\ t' = t
            /\ solves' = solves /\ calls' = calls /\ rejects' = rejects
            /\ solver_stats' = solver_stats
         ]_vars

\* C13 witness: in a second call of the adaptive stepper the solve that
\* follows a rejection has failed
C13_Witness ==
    /\ Adaptive /\ Raised("ConvergenceError")
    /\ calls = 2 /\ rejects = entry.rejects + 1
    /\ u0 = entry.u0 /\ u0 # [i \in 1..num_fields |-> RInt(i)]

\* C14: TimeStepper._update() adds to every field i of u0 exactly
\* dt * sum over the stages s of w[s] * k[nf*s+i], where w = b for the default
\* splitting and otherwise w is the solution of A2 w = b; each field takes
\* its own stage values only (for one stage and one field, the stage
\* function itself), and nothing else is added.
C14_UpdateFormula ==
    [][(~DG /\ updates' = updates + 1) =>
         LET n == num_stages
             A2 == [r \in 1..n |-> [c \in 1..n |->
                      IF args.splitting = "AI"
                      THEN (IF r = c THEN RInt(1) ELSE RZero)
                      ELSE RInt(args.tableau.A[r][c])]]
             \* A2^{-1} b by Cramer's rule
             w == [s \in 1..n |->
                      RDiv(Det([r \in 1..n |-> [c \in 1..n |->
                                  IF c = s THEN RInt(args.tableau.b[r])
                                  ELSE A2[r][c]]], n),
                           Det(A2, n))]
         IN  /\ args.splitting = "AI" =>
                    w = [s \in 1..n |-> RInt(args.tableau.b[s])]
             /\ \A i \in 1..num_fields :
                  u0'[i] = RAdd(u0[i],
                      RMul(dt, RSum([s \in 1..n |->
                              RMul(w[s], stages[num_fields * (s - 1) + i])],
                              n)))
      ]_vars

\* C14 witness: a two-stage, two-field TimeStepper with the splitting
\* (identity, A) has updated u0
C14_Witness ==
    /\ Base /\ Returned /\ args.splitting = "IA"
    /\ num_stages = 2 /\ num_fields = 2
    /\ u0 # entry.u0

\* C15: in TimeStepper.advance() and in every iteration of
\* AdaptiveTimeStepper.advance() the stage boundary data are refreshed, then
\* the solver runs, and u0 is written only after that solve has returned:
\* every solve, the re-solves after a rejection included, runs on boundary
\* data refreshed for the current t and dt, and u0 keeps its value at entry
\* until an update that uses the stages of the latest solve.
C15_RefreshSolveUpdate ==
    /\ [](~DG /\ pc = "solve" => gcur = <<t, dt>>)
    /\ [](~DG /\ pc \in {"estimate", "decide", "update"} =>
            gcur = <<t, dtSolve>> /\ dtSolve = dt)
    /\ [](~DG /\ pc \in {"refresh", "solve", "estimate", "decide", "update"} =>
            u0 = entry.u0)
    /\ [][~DG =>
            /\ pc' = "solve" => pc = "refresh" /\ gcur' = <<t, dt>>
            /\ solves' # solves => pc = "solve" /\ gcur = <<t, dt>>
            /\ u0' # u0 => /\ pc \in {"update", "decide"}
                           /\ solves > entry.solves
                           /\ updSolve' = solves
                           /\ gcur = <<t, dtSolve>>
         ]_vars

\* C15 witness: the solve that follows a rejection is about to run, on
\* boundary data refreshed for the shrunk dt
C15_Witness ==
    /\ Adaptive /\ pc = "solve"
    /\ rejects = entry.rejects + 1
    /\ dt # entry.dt /\ gcur = <<t, dt>>

\* The DG-in-time polynomial of field i, with the stage values UUs as its
\* coefficients in the reordered basis, evaluated at the point x of the
\* reference interval
DGPolynomialAt(UUs, nf, order, i, x) ==
    RSum([s \in 1..(order + 1) |->
            RMul(UUs[nf * (s - 1) + i],
                 TabulateVals(order, x)[Perm(order)[s]])], order + 1)

\* C16: after a successful DiscontinuousGalerkinTimeStepper.advance() field
\* i of u0 is sub-function num_fields*order + i of UU, the last of the
\* order + 1 stages; after the reordering that stage is the value of the
\* DG polynomial at the right end of the time interval (and the first stage
\* belongs to the left end); nothing else is written to u0, and t and dt are
\* not modified.
C16_DGLastStage ==
    /\ [](DG /\ pc \notin {"new", "config_error"} =>
            /\ num_stages = args.order + 1
            /\ t = RZero /\ dt = args.dt
            /\ args.order >= 1 =>
                 /\ TabulateVals(args.order, RZero)[Perm(args.order)[1]]
                       = RInt(1)
                 /\ TabulateVals(args.order, RInt(1))
                       [Perm(args.order)[args.order + 1]] = RInt(1))
    /\ [](DG /\ Returned =>
            /\ Len(UU) = num_fields * (args.order + 1)
            /\ \A i \in 1..num_fields :
                 /\ u0[i] = UU[num_fields * args.order + i]
                 /\ u0[i] = DGPolynomialAt(UU, num_fields, args.order, i,
                                           RInt(1)))
    /\ [][DG /\ u0' # u0 =>
            /\ pc = "dgrecord" /\ pc' = "ready"
            /\ u0' = [i \in 1..num_fields |->
                        UU[num_fields * args.order + i]]
            /\ t' = t /\ dt' = dt
         ]_vars

\* C16 witness: a second step of the order 2 stepper with two fields has
\* returned
C16_Witness ==
    /\ DG /\ Returned /\ args.order = 2 /\ num_fields = 2 /\ calls = 2
    /\ u0 # entry.u0
    /\ u0[2] # UU[2] /\ u0[2] # UU[4]

\* the call of advance() that ran last ended with an exception
RaisedAny ==
    outcome.kind \in {"RuntimeError", "ConvergenceError", "ZeroDivisionError",
                      "IndexError"}

UlpDen == 8

\* x >= 0 rounded to the nearest multiple of 1 / UlpDen, ties to even
FlRound(x) ==
    LET m == x[1] * UlpDen
        f == m \div x[2]
        r == m % x[2]
    IN  IF 2 * r < x[2] THEN Rat(f, UlpDen)
        ELSE IF 2 * r > x[2] THEN Rat(f + 1, UlpDen)
        ELSE IF f % 2 = 0 THEN Rat(f, UlpDen)
        ELSE Rat(f + 1, UlpDen)

\* dtnew = q * float(self.dt), a floating point product
DtNewFl(e, ord, dtc) == FlRound(DtNew(e, ord, dtc))

\* self.solver.solve() converges (the solves are not counted here)
LoopSolveConverges ==
    /\ pc = "solve"
    /\ stages' \in StageSamples(num_stages * num_fields)
    /\ dtSolve' = dt
    /\ pc' = "estimate"
    /\ UNCHANGED <<args, t, dt, u0, num_fields, num_stages, gcur, delb,
                   error_func, err, outcome, entry, solves, errSolve,
                   updSolve, updates, qfac, calls, rejects, dgvars>>

\* if err >= self.tol: self.dt.assign(dtnew), and the loop goes round, any
\* number of times
LoopReject ==
    /\ pc = "decide"
    /\ \E numpyFloat \in BOOLEAN : ~QRaises(err, args.tableau.order, numpyFloat)
    /\ RejectTest(err)
    /\ qfac' = Clamp(QRaw(err, args.tableau.order))
    /\ dt' = DtNewFl(err, args.tableau.order, dt)
    /\ pc' = "refresh"
    /\ UNCHANGED <<args, t, u0, num_fields, num_stages, stages, gcur, delb,
                   error_func, err, outcome, entry, solves, dtSolve, errSolve,
                   updSolve, updates, calls, rejects, dgvars>>

\* elif dtnew <= self.dt_min: raise RuntimeError
LoopRaiseMinStep ==
    /\ pc = "decide"
    /\ \E numpyFloat \in BOOLEAN : ~QRaises(err, args.tableau.order, numpyFloat)
    /\ ~RejectTest(err)
    /\ MinStepTest(DtNewFl(err, args.tableau.order, dt))
    /\ qfac' = Clamp(QRaw(err, args.tableau.order))
    /\ outcome' = [kind |-> "RuntimeError", value |-> None]
    /\ pc' = "ready"
    /\ UNCHANGED <<args, t, dt, u0, num_fields, num_stages, stages, gcur,
                   delb, error_func, err, entry, solves, dtSolve, errSolve,
                   updSolve, updates, calls, rejects, dgvars>>

\* else: self._update(); self.dt.assign(dtnew); return (err, dtnew)
LoopAccept ==
    /\ pc = "decide"
    /\ \E numpyFloat \in BOOLEAN : ~QRaises(err, args.tableau.order, numpyFloat)
    /\ ~RejectTest(err)
    /\ ~MinStepTest(DtNewFl(err, args.tableau.order, dt))
    /\ qfac' = Clamp(QRaw(err, args.tableau.order))
    /\ u0' = UpdatedU0(u0, dt, UpdateWeights(args.tableau, args.splitting), Ks,
                       num_stages, num_fields)
    /\ updates' = updates + 1
    /\ dt' = DtNewFl(err, args.tableau.order, dt)
    /\ outcome' = [kind |-> "returned",
                   value |-> <<err, DtNewFl(err, args.tableau.order, dt)>>]
    /\ pc' = "ready"
    /\ UNCHANGED <<args, t, num_fields, num_stages, stages, gcur, delb,
                   error_func, err, entry, solves, dtSolve, errSolve,
                   updSolve, calls, rejects, dgvars>>

InitLive == Init /\ Adaptive

NextLive ==
    \/ AdaptiveTimeStepperInit
    \/ AdvanceEnter
    \/ RefreshBCs
    \/ LoopSolveConverges
    \/ SolveFails
    \/ EstimateError
    \/ QFactorRaises
    \/ LoopReject
    \/ LoopRaiseMinStep
    \/ LoopAccept

\* Every step of advance() that can be taken is taken: the interpreter runs
\* the loop, and the solve either returns or raises.
SpecLive == InitLive /\ [][NextLive]_vars /\ WF_vars(NextLive)

\* C12 (as claimed): every call of AdaptiveTimeStepper.advance() terminates:
\* a call that has been entered eventually returns or raises.
C12_AdvanceTerminates ==
    (Adaptive /\ pc \in {"refresh", "solve", "estimate", "decide"})
        ~> (pc = "ready")

====
